---- MODULE Spec2Model ----
(***************************************************************************)
(* AeroSentinel drone swarm simulation: the simulation engine              *)
(* (SuperSimulation.step, the run loop run_simulation_async), the          *)
(* communication-free target assignment, combat resolution, and the        *)
(* start / status interface of the backend, as the repository documents    *)
(* them.                                                                   *)
(*                                                                         *)
(* Geometry is one-dimensional and measured in cells: a position is an     *)
(* integer, a distance the absolute difference, and a drone at full speed  *)
(* moves one cell per tick.  Time is measured in ticks of dt.              *)
(***************************************************************************)
EXTENDS Integers, Sequences, FiniteSets, TLC

---------------------------------------------------------------------------
\* Bounds of the model.
MaxFriendly == 2        \* largest friendly_count a scenario asks for
MaxEnemy == 1           \* largest enemy_count a scenario asks for
MaxTime == 3            \* largest max_time, in ticks of dt
MaxAssets == 1          \* largest number of assets in a scenario
SpawnDistance == 2      \* cell where the enemies spawn (assets sit at cell 0)
RangeCells == 1         \* the positive weapon_range a scenario asks for, in cells
DetectCells == 5        \* the positive detection_range a scenario asks for, in cells
BreachCells == 1        \* breach threshold around an asset, in cells
MaxSpawned == 1         \* largest number of enemies spawned into a running simulation
ScenarioMaxTime == 2    \* max_time of the scenarios of the service runs, in ticks of dt

\* Program constants.
HASH_DRONE == 7919      \* drone_id multiplier of the assignment hash
HASH_ENEMY == 6547      \* enemy_id multiplier of the assignment hash
HASH_MOD == 1000        \* modulus of the assignment hash
DISTANCE_GAIN == 1000   \* numerator of the inverse-distance bonus
MIN_DISTANCE == 1       \* the floor of the documented score, max(distance, 1.0)
FRIENDLY_HEALTH == 150
ENEMY_HEALTH == 80
ASSET_HEALTH == 100
FRIENDLY_DAMAGE_MIN == 40
FRIENDLY_DAMAGE_MAX == 60
ENEMY_DAMAGE_MIN == 15
ENEMY_DAMAGE_MAX == 25
SUCCESS_PERCENT == 80   \* share of enemies destroyed that mission_success asks for
ASSET_BREACH_DAMAGE == 50  \* health an asset loses per breaching ground enemy and tick
DT == 1                 \* one tick advances the clock by dt
ANALYTICS_STRIDE == 10  \* the analytics series takes every 10th frame

---------------------------------------------------------------------------
VARIABLES
    status,         \* simulations.status of the registry entry, "none" before start()
    request,        \* the configuration of the last start() call
    startResult,    \* what the last start() call returned
    pc,             \* position of the background run thread
    time,           \* sim.time, in units of dt
    step_count,     \* number of step() calls that have run
    friendlies,     \* roster of friendly drones: id -> record
    enemies,        \* roster of enemy drones: id -> record
    assets,         \* ground assets: id -> record
    history,        \* sim.history: the recorded frames
    combat_events,  \* number of engagements resolved so far
    error,          \* diagnostic message of a failed run
    reply,          \* last response of GET /api/simulation/{id}/status
    fetched,        \* what the client has fetched of the run: frames, analytics
    stopped_at,     \* tick count at which the client pressed Stop, -1 before
    twin,           \* a second simulation of the registry, run by its own thread
    app,            \* main client (App.jsx): playing, currentFrame, loading, polling
    customConfig,   \* main client: the scenario of the custom scenario builder
    selectedAssetIndex, \* main client: the asset selected in the builder
    config,         \* the scenario file the user loads into the builder
    page,           \* dynamic page (DynamicPage.jsx): status, playing, poll interval
    steering        \* velocity of a friendly drone in m/s, smoothed tick by tick

vars == <<status, request, startResult, pc, time, step_count, friendlies, enemies,
          assets, history, combat_events, error, reply, fetched, stopped_at, twin,
          app, customConfig, selectedAssetIndex, config, page, steering>>

\* The custom scenario builder of the main client.
builder == <<customConfig, selectedAssetIndex, config>>

entities == <<friendlies, enemies, assets>>

---------------------------------------------------------------------------
\* Arithmetic helpers.
Abs(x) == IF x < 0 THEN -x ELSE x
Sign(x) == IF x < 0 THEN -1 ELSE IF x > 0 THEN 1 ELSE 0
MaxOf(a, b) == IF a >= b THEN a ELSE b
Distance(p, q) == Abs(p - q)

\* A roster (id -> record), evaluated once where it is built.
Roster(f) == IF f = << >> THEN << >> ELSE f

RECURSIVE SumOver(_, _)
SumOver(S, f) ==
    IF S = {} THEN 0
    ELSE LET x == CHOOSE y \in S : TRUE IN f[x] + SumOver(S \ {x}, f)

---------------------------------------------------------------------------
\* Scenario configuration.
NoConfig == [friendly_count |-> 0, enemy_count |-> 0, ground_attack_ratio |-> 0,
             max_time |-> 0, weapon_range |-> 0, detection_range |-> 0,
             swarm_algorithm |-> "none", assets |-> 0]

\* The navigation strategies the model simulates, out of the known set.
KnownAlgorithms == {"cbba-superiority", "adaptive-shield"}

\* The configurations a caller may pass to start(): counts, ranges and times
\* including the non-positive ones, a strategy that may be unknown, an asset
\* list that may be empty.  ground_attack_ratio is in percent.
ConfigSpace ==
    [friendly_count : 0..MaxFriendly,
     enemy_count : -1..MaxEnemy,
     ground_attack_ratio : {0, 100},
     max_time : 0..MaxTime,
     weapon_range : {0, RangeCells},
     detection_range : {0, DetectCells},
     swarm_algorithm : KnownAlgorithms \cup {"unknown-strategy"},
     assets : 0..MaxAssets]

\* validate config: friendly count > 0, ranges > 0, max_time > 0, known strategy.
\* A scenario without enemies is a valid scenario, and so is one whose asset
\* list is empty.
ValidateConfig(cfg) ==
    /\ cfg.friendly_count > 0
    /\ cfg.enemy_count >= 0
    /\ cfg.max_time > 0
    /\ cfg.weapon_range > 0
    /\ cfg.detection_range > 0
    /\ cfg.swarm_algorithm \in KnownAlgorithms

---------------------------------------------------------------------------
\* Scenario initialization.
GroundCount(cfg) == (cfg.enemy_count * cfg.ground_attack_ratio) \div 100

\* Friendlies deploy in a ring around the primary asset at cell 0: odd ids one
\* cell forward, even ids one cell behind; 150 HP, interceptor, zero velocity.
SpawnFriendlies(cfg) ==
    [d \in 1..cfg.friendly_count |->
        [pos |-> IF d % 2 = 1 THEN 1 ELSE -1, velocity |-> 0,
         health |-> FRIENDLY_HEALTH, role |-> "interceptor", target |-> 0]]

\* Enemies spawn farther away with 80 HP; the first GroundCount are ground units.
SpawnEnemies(cfg) ==
    [e \in 1..cfg.enemy_count |->
        [pos |-> SpawnDistance, velocity |-> 0, health |-> ENEMY_HEALTH,
         kind |-> IF e <= GroundCount(cfg) THEN "ground" ELSE "air"]]

SpawnAssets(cfg) ==
    [a \in 1..cfg.assets |-> [pos |-> 0, health |-> ASSET_HEALTH]]

---------------------------------------------------------------------------
\* Observation: only entities that are alive are seen, enemies within the
\* detection range of the observing drone.
AliveFriendlies(F) == {d \in DOMAIN F : F[d].health > 0}
AliveEnemies(E) == {e \in DOMAIN E : E[e].health > 0}
AliveAssets(A) == {a \in DOMAIN A : A[a].health > 0}

\* (variant) the enemies within detection range, destroyed ones included.
ObservableWithDead(d, F, E, cfg) ==
    {e \in DOMAIN E : Distance(F[d].pos, E[e].pos) <= cfg.detection_range}

Observable(d, F, E, cfg) ==
    {e \in AliveEnemies(E) : Distance(F[d].pos, E[e].pos) <= cfg.detection_range}

Observers(e, F, E, cfg) ==
    {d \in AliveFriendlies(F) : e \in Observable(d, F, E, cfg)}

\* The member of S nearest to position p, the lowest id among equally near ones.
Nearest(S, R, p) ==
    CHOOSE x \in S : \A y \in S :
        \/ Distance(R[x].pos, p) < Distance(R[y].pos, p)
        \/ (Distance(R[x].pos, p) = Distance(R[y].pos, p) /\ x <= y)

---------------------------------------------------------------------------
\* Assignment protocol.
\*   assignment_score = (drone_id * 7919 + enemy_id * 6547) % 1000
\*   distance_score   = 1000.0 / distance
\*   total_score      = assignment_score + distance_score
hash_score(d, e) == (d * HASH_DRONE + e * HASH_ENEMY) % HASH_MOD

\* The score is a fraction: its numerator over the distance as it is.  At
\* distance 0 the quotient 1000.0 / distance is either an exception, which
\* ends the tick as a fault, or the float infinity, which the comparison by
\* cross-multiplication ranks above every finite score and equal to itself.
ScoreDen(dist) == dist
ScoreNum(d, e, dist) == hash_score(d, e) * ScoreDen(dist) + DISTANCE_GAIN

\* total_score(d1, e1, dist1) > total_score(d2, e2, dist2), by cross-multiplication.
ScoreGreater(d1, e1, dist1, d2, e2, dist2) ==
    ScoreNum(d1, e1, dist1) * ScoreDen(dist2) > ScoreNum(d2, e2, dist2) * ScoreDen(dist1)

\* CBBAController.greedy_assignment: the drone loops over the enemies it
\* observes and keeps the one of highest priority ("if priority > best_priority"),
\* so of equal priorities the first met stays.  0 is "no target".
greedy_assignment(d, F, E, cfg) ==
    LET C == Observable(d, F, E, cfg)
        dist(e) == Distance(F[d].pos, E[e].pos)
    IN  IF C = {} THEN 0
        ELSE CHOOSE e \in C : \A o \in C \ {e} :
                \/ ScoreGreater(d, e, dist(e), d, o, dist(o))
                \/ (~ScoreGreater(d, o, dist(o), d, e, dist(e)) /\ e < o)

\* Target selection of the base algorithms: (1) ground units near assets,
\* (2) any ground units, then (3) the nearest remaining enemy.
priority_target(d, F, E, A, cfg) ==
    LET C == Observable(d, F, E, cfg)
        G == {e \in C : E[e].kind = "ground"}
        N == {e \in G : \E a \in AliveAssets(A) :
                  Distance(E[e].pos, A[a].pos) <= BreachCells}
    IN  IF N # {} THEN Nearest(N, E, F[d].pos)
        ELSE IF G # {} THEN Nearest(G, E, F[d].pos)
        ELSE IF C # {} THEN Nearest(C, E, F[d].pos)
        ELSE 0

\* (variant) an auction: the drone takes the nearest enemy that no other
\* friendly holds as its target.
select_target_unclaimed(d, F, E, A, cfg) ==
    LET free == {e \in Observable(d, F, E, cfg) :
                    \A o \in AliveFriendlies(F) \ {d} : F[o].target # e}
    IN  IF free # {} THEN Nearest(free, E, F[d].pos) ELSE 0

select_target(d, F, E, A, cfg) ==
    IF cfg.swarm_algorithm = "cbba-superiority"
    THEN greedy_assignment(d, F, E, cfg)
    ELSE priority_target(d, F, E, A, cfg)

\* Roles: with a ground threat in view the drone becomes an interceptor with
\* an 80% bias (roll), otherwise a defender; with only air threats in view it
\* hunts when they outnumber the friendlies, otherwise it defends.
update_role(d, F, E, cfg, roll) ==
    LET C == Observable(d, F, E, cfg)
        G == {e \in C : E[e].kind = "ground"}
    IN  IF G # {} THEN (IF roll THEN "interceptor" ELSE "defender")
        ELSE IF Cardinality(C) > Cardinality(AliveFriendlies(F)) THEN "hunter"
        ELSE "defender"

\* The drones whose role is drawn this tick: alive, with a ground threat in view.
GroundWatchers(F, E, cfg) ==
    {d \in AliveFriendlies(F) : \E e \in Observable(d, F, E, cfg) : E[e].kind = "ground"}

\* Desired velocity of a friendly: pursuit of its target at full speed.
compute_desired_velocity(d, F, E) ==
    IF F[d].target = 0 THEN 0
    ELSE Sign(E[F[d].target].pos - F[d].pos)

\* Enemy AI: ground enemies march toward the nearest asset and halt inside the
\* breach threshold; air enemies chase the nearest friendly that is alive.
enemy_velocity(e, F, E, A) ==
    IF E[e].kind = "ground" /\ AliveAssets(A) # {}
    THEN LET a == Nearest(AliveAssets(A), A, E[e].pos)
         IN  IF Distance(E[e].pos, A[a].pos) <= BreachCells THEN 0
             ELSE Sign(A[a].pos - E[e].pos)
    ELSE IF AliveFriendlies(F) # {}
    THEN Sign(F[Nearest(AliveFriendlies(F), F, E[e].pos)].pos - E[e].pos)
    ELSE 0

---------------------------------------------------------------------------
\* Combat resolution.
FriendlyDraws == {0, FRIENDLY_DAMAGE_MIN, FRIENDLY_DAMAGE_MAX}   \* 0 is a miss
EnemyDraws == {0, ENEMY_DAMAGE_MIN, ENEMY_DAMAGE_MAX}

\* (variant) the hit is subtracted and the result is not clamped.
apply_damage_unclamped(health, damage) == health - damage

\* Health after a hit: reduced below zero it is clamped at 0.
apply_damage(health, damage) == MaxOf(0, health - damage)

\* Friendlies that engage: alive, with a target that is alive and within weapon range.
EngagingFriendlies(F, E, cfg) ==
    {d \in AliveFriendlies(F) :
        /\ F[d].target # 0
        /\ E[F[d].target].health > 0
        /\ Distance(F[d].pos, E[F[d].target].pos) <= cfg.weapon_range}

\* Friendlies an enemy can engage: alive and within weapon range.
InRange(e, F, E, cfg) ==
    {d \in AliveFriendlies(F) : Distance(F[d].pos, E[e].pos) <= cfg.weapon_range}

EngagingEnemies(F, E, cfg) == {e \in AliveEnemies(E) : InRange(e, F, E, cfg) # {}}

\* Ground enemies inside the breach threshold of an asset that still stands.
Breaching(a, E, A) ==
    {e \in AliveEnemies(E) :
        E[e].kind = "ground" /\ Distance(E[e].pos, A[a].pos) <= BreachCells}

\* (variant) a friendly that fires hits every enemy within its weapon range.
EnemiesAfterFireSplash(F, E, cfg, fd) ==
    Roster([e \in DOMAIN E |->
        LET hits == {d \in EngagingFriendlies(F, E, cfg) :
                        Distance(F[d].pos, E[e].pos) <= cfg.weapon_range}
        IN  [E[e] EXCEPT !.health = apply_damage(@, SumOver(hits, fd))]])

\* (variant) the enemies brought to 0 are dropped from the roster.
EnemiesAfterFirePruned(F, E, cfg, fd) ==
    LET after == [e \in DOMAIN E |->
                     apply_damage(E[e].health,
                         SumOver({d \in EngagingFriendlies(F, E, cfg) : F[d].target = e}, fd))]
    IN  Roster([e \in {x \in DOMAIN E : after[x] > 0} |-> [E[e] EXCEPT !.health = after[e]]])

\* engage_targets: the friendlies fire, then the enemies still alive fire at
\* the nearest friendly in range and the ground enemies damage the assets.
EnemiesAfterFire(F, E, cfg, fd) ==
    Roster([e \in DOMAIN E |->
        LET hits == {d \in EngagingFriendlies(F, E, cfg) : F[d].target = e}
        IN  [E[e] EXCEPT !.health = apply_damage(@, SumOver(hits, fd))]])

FriendliesAfterFire(F, E, cfg, ed) ==
    Roster([d \in DOMAIN F |->
        LET hits == {e \in EngagingEnemies(F, E, cfg) :
                        Nearest(InRange(e, F, E, cfg), F, E[e].pos) = d}
        IN  [F[d] EXCEPT !.health = apply_damage(@, SumOver(hits, ed))]])

AssetsAfterBreach(E, A) ==
    Roster([a \in DOMAIN A |->
        [A[a] EXCEPT !.health =
            apply_damage(@, ASSET_BREACH_DAMAGE * Cardinality(Breaching(a, E, A)))]])

---------------------------------------------------------------------------
\* Termination and statistics.
AllEnemiesDestroyed(E) == AliveEnemies(E) = {}
AllFriendliesDestroyed(F) == AliveFriendlies(F) = {}

\* (variant) the loop condition without the clock.
is_complete_untimed(F, E, t, cfg) ==
    \/ AllEnemiesDestroyed(E)
    \/ AllFriendliesDestroyed(F)

\* (variant) the loop condition without the test for the enemies.
is_complete_enemies_ignored(F, E, t, cfg) ==
    \/ AllFriendliesDestroyed(F)
    \/ t >= cfg.max_time

\* is_complete: all enemies or all friendlies destroyed, or max_time reached.
is_complete(F, E, t, cfg) ==
    \/ AllEnemiesDestroyed(E)
    \/ AllFriendliesDestroyed(F)
    \/ t >= cfg.max_time

\* (variant) the mission result of the dynamic page: the assets still stand.
mission_success_assets_only(E, A) == AliveAssets(A) = DOMAIN A

\* (variant) the share of enemies destroyed taken over max(total, 1).
mission_success_guarded(E, A) ==
    /\ AliveAssets(A) = DOMAIN A
    /\ 100 * Cardinality(DOMAIN E \ AliveEnemies(E))
          >= SUCCESS_PERCENT * MaxOf(Cardinality(DOMAIN E), 1)

\* mission_success: all assets survive and at least 80% of the enemies are destroyed.
mission_success(E, A) ==
    /\ AliveAssets(A) = DOMAIN A
    /\ 100 * Cardinality(DOMAIN E \ AliveEnemies(E)) >= SUCCESS_PERCENT * Cardinality(DOMAIN E)

NoStatistics ==
    [present |-> FALSE, duration |-> 0, friendly_losses |-> 0, enemy_losses |-> 0,
     assets_protected |-> 0, mission_success |-> FALSE, error |-> "none"]

get_statistics(F, E, A, t) ==
    [present |-> TRUE, duration |-> t,
     friendly_losses |-> Cardinality(DOMAIN F \ AliveFriendlies(F)),
     enemy_losses |-> Cardinality(DOMAIN E \ AliveEnemies(E)),
     assets_protected |-> Cardinality(AliveAssets(A)),
     mission_success |-> mission_success(E, A),
     error |-> "none"]

\* save_state: the frame appended to the history.
Frame(F, E, A, t) ==
    [time |-> t,
     friendly_count |-> Cardinality(AliveFriendlies(F)),
     enemy_count |-> Cardinality(AliveEnemies(E)),
     roster |-> <<Cardinality(DOMAIN F), Cardinality(DOMAIN E)>>,
     assets |-> [a \in DOMAIN A |-> A[a].health]]

\* (variant) only the latest frame is kept.
save_state_latest(h, f) == <<f>>

\* save_state: the frame goes to the end of the history.
save_state(h, f) == Append(h, f)

\* GET /api/simulation/{id}/data?start=&end=: the frames from index start
\* (counted from 0) up to end, end excluded.
get_frames(h, start, end) ==
    SubSeq(h, start + 1, IF end < Len(h) THEN end ELSE Len(h))

\* GET /api/simulation/{id}/analytics: time series over every 10th frame.
get_analytics(h) ==
    LET picked == {i \in 1..Len(h) : (i - 1) % ANALYTICS_STRIDE = 0}
    IN  [timestamps |-> [i \in picked |-> h[i].time],
         friendly_count |-> [i \in picked |-> h[i].friendly_count],
         enemy_count |-> [i \in picked |-> h[i].enemy_count]]

\* What the client holds of a run before it has fetched anything.
NothingFetched == [stage |-> "none", frames |-> << >>, analytics |-> << >>]

\* A simulation of the registry that has not been started.
NoRun ==
    [status |-> "none", pc |-> "idle", request |-> NoConfig, time |-> 0,
     friendlies |-> << >>, enemies |-> << >>, assets |-> << >>, history |-> << >>]

---------------------------------------------------------------------------
\* Velocity of a friendly drone.  Each navigation strategy returns a raw
\* vector; it is clamped to the top speed and blended with the velocity of
\* the previous tick, 0.7 of the new one and 0.3 of the old one.  Speeds are
\* whole m/s along the line, a fraction is cut off toward zero.
MAX_SPEED == 70         \* max_speed, the friendly top speed in m/s
SMOOTH_NEW == 7         \* share of the desired velocity, in tenths
SMOOTH_OLD == 3         \* share of the previous velocity, in tenths
MaxRawSpeed == 100      \* largest magnitude of a raw vector, in m/s

NavigationStrategies == {"cbba-superiority", "cvt-cbf", "qipfd-quantum"}

\* Integer quotient rounded toward zero.
Quotient(a, b) == IF a >= 0 THEN a \div b ELSE -((-a) \div b)

\* (variant) the raw vector is passed on as it is.
clamp_speed_off(raw, top) == raw

\* The raw vector cut to the top speed, its direction kept.
clamp_speed(raw, top) ==
    IF raw > top THEN top ELSE IF raw < -top THEN -top ELSE raw

smooth_velocity(desired, previous) ==
    Quotient(SMOOTH_NEW * desired + SMOOTH_OLD * previous, SMOOTH_NEW + SMOOTH_OLD)

\* A drone before its first tick: zero velocity.
Hovering == [algorithm |-> "cbba-superiority", velocity |-> 0, raw |-> 0]

---------------------------------------------------------------------------
\* The main client (App.jsx): the values a scenario form or a scenario file
\* holds.  A finite number is kept in tenths (4 is 0.4, 200 is 20); NaN and
\* Infinity are numbers that are not finite.
Num(n) == [t |-> "number", n |-> n, s |-> ""]
Str(s) == [t |-> "string", n |-> 0, s |-> s]
NaN == [t |-> "NaN", n |-> 0, s |-> ""]
Infinity == [t |-> "Infinity", n |-> 0, s |-> ""]
Undefined == [t |-> "undefined", n |-> 0, s |-> ""]
Null == [t |-> "null", n |-> 0, s |-> ""]
True == [t |-> "boolean", n |-> 1, s |-> ""]

\* typeof value
TypeOf(v) ==
    IF v.t \in {"number", "NaN", "Infinity"} THEN "number"
    ELSE IF v.t = "null" THEN "object"
    ELSE v.t

\* Number.isFinite(value)
IsFinite(v) == v.t = "number"

\* The strings of the model and what String.trim and Number make of them.
FormStrings == {"42", " 7 ", "0.5", "-3", "", "   ", "abc", "Infinity"}

Trim(s) == IF s = " 7 " THEN "7" ELSE IF s = "   " THEN "" ELSE s

ToNumber(s) ==
    LET w == Trim(s)
    IN  CASE w = "" -> Num(0)
          [] w = "42" -> Num(420)
          [] w = "7" -> Num(70)
          [] w = "0.5" -> Num(5)
          [] w = "-3" -> Num(-30)
          [] w = "10" -> Num(100)
          [] w = "20" -> Num(200)
          [] w = "30" -> Num(300)
          [] w = "Infinity" -> Infinity
          [] OTHER -> NaN

\* (variant) every value of type number is passed on, finite or not.
sanitizeNumberAnyNumber(value, fallback) ==
    IF TypeOf(value) = "number" THEN value
    ELSE IF TypeOf(value) = "string" /\ Trim(value.s) # ""
    THEN LET parsed == ToNumber(value.s)
         IN  IF IsFinite(parsed) THEN parsed ELSE fallback
    ELSE fallback

sanitizeNumber(value, fallback) ==
    IF TypeOf(value) = "number" /\ IsFinite(value) THEN value
    ELSE IF TypeOf(value) = "string" /\ Trim(value.s) # ""
    THEN LET parsed == ToNumber(value.s)
         IN  IF IsFinite(parsed) THEN parsed ELSE fallback
    ELSE fallback

\* defaults of prepareScenarioPayload
defaults ==
    [friendly_count |-> Num(200), enemy_count |-> Num(150),
     ground_attack_ratio |-> Num(4), max_time |-> Num(1200), max_speed |-> Num(700),
     weapon_range |-> Num(1500), detection_range |-> Num(15000)]

NumericFields == DOMAIN defaults

\* The position of an asset as a scenario may give it: an array, a string,
\* an object with x, y, z (e holds the three), nothing, or something else.
Arr(e) == [t |-> "array", e |-> e, s |-> ""]
PosStr(s) == [t |-> "string", e |-> << >>, s |-> s]
Obj(x, y, z) == [t |-> "object", e |-> <<x, y, z>>, s |-> ""]
NoPosition == [t |-> "undefined", e |-> << >>, s |-> ""]
PosOther == [t |-> "number", e |-> << >>, s |-> ""]

Origin == <<Num(0), Num(0), Num(0)>>

\* source.split(/[\s,]+/).filter(Boolean)
Split(s) ==
    CASE s = "10,20,30" -> <<"10", "20", "30">>
      [] s = "10 20" -> <<"10", "20">>
      [] s = "a,b" -> <<"a", "b">>
      [] OTHER -> << >>

\* The coordinates read from the position of an asset.
Coords(position) ==
    LET source == IF position.t = "undefined" THEN Arr(Origin) ELSE position
    IN  CASE source.t = "array" -> source.e
          [] source.t = "string" ->
                LET tokens == Split(source.s)
                IN  IF tokens = << >> THEN << >>
                    ELSE [i \in 1..Len(tokens) |-> ToNumber(tokens[i])]
          [] source.t = "object" -> source.e
          [] OTHER -> Origin

\* const [x = 0, y = 0, z = 0] = coords
Coordinate(coords, i) ==
    IF i <= Len(coords) /\ coords[i].t # "undefined" THEN coords[i] ELSE Num(0)

\* An asset of the scenario; one that is null or an empty object has
\* neither a position nor a value.
Asset(position, value) == [position |-> position, value |-> value]

\* The asset list of a scenario: an array, missing, or not an array.
AssetList(list) == [t |-> "array", list |-> list]
NoAssets == [t |-> "undefined", list |-> << >>]
AssetsOther == [t |-> "string", list |-> << >>]

\* One asset of normalizedAssets; idx counts from 0.
NormalizedAsset(asset, idx) ==
    LET coords == Coords(asset.position)
    IN  Asset(Arr(<<sanitizeNumber(Coordinate(coords, 1), Num(0)),
                    sanitizeNumber(Coordinate(coords, 2), Num(0)),
                    sanitizeNumber(Coordinate(coords, 3), Num(0))>>),
              sanitizeNumber(asset.value, Num(10 + idx)))

\* prepareScenarioPayload(config).  The fields name and swarm_algorithm,
\* strings handed through, are left out.
prepareScenarioPayload(cfg) ==
    LET given == IF cfg.assets.t = "array" THEN cfg.assets.list ELSE << >>
        normalizedAssets ==
            IF given = << >> THEN << >>
            ELSE [i \in 1..Len(given) |-> NormalizedAsset(given[i], i - 1)]
        safeAssets ==
            IF Len(normalizedAssets) # 0 THEN normalizedAssets
            ELSE <<Asset(Arr(Origin), Num(10))>>
    IN  [f \in NumericFields \cup {"assets"} |->
            IF f = "assets" THEN AssetList(safeAssets)
            ELSE sanitizeNumber(cfg[f], defaults[f])]

\* customConfig as the component is mounted.
DefaultCustomConfig ==
    [f \in NumericFields \cup {"assets"} |->
        IF f = "assets" THEN AssetList(<<Asset(Arr(Origin), Num(10))>>)
        ELSE defaults[f]]

\* A scenario that gives nothing.
EmptyScenario ==
    [f \in NumericFields \cup {"assets"} |->
        IF f = "assets" THEN NoAssets ELSE Undefined]

\* The main client as it is mounted: nothing plays, frame 0, not loading.
AppMounted == [playing |-> FALSE, currentFrame |-> 0, loading |-> FALSE, polling |-> FALSE]

\* The dynamic page as it is mounted.
PageMounted == [status |-> "idle", playing |-> FALSE, poll |-> FALSE, frames |-> 0]

---------------------------------------------------------------------------
\* The backend before any start().
ServerInit ==
    /\ status = "none"
    /\ request = NoConfig
    /\ startResult = "none"
    /\ pc = "idle"
    /\ time = 0
    /\ step_count = 0
    /\ friendlies = << >>
    /\ enemies = << >>
    /\ assets = << >>
    /\ history = << >>
    /\ combat_events = 0
    /\ error = "none"
    /\ reply = [status |-> "none", statistics |-> NoStatistics]
    /\ fetched = NothingFetched
    /\ stopped_at = -1
    /\ twin = NoRun

\* The clients as their components are mounted.
Mounted ==
    /\ app = AppMounted
    /\ customConfig = DefaultCustomConfig
    /\ selectedAssetIndex = 0
    /\ page = PageMounted

Init ==
    /\ ServerInit
    /\ Mounted
    /\ config = DefaultCustomConfig
    /\ steering = Hovering

\* POST /api/simulation/start with a configuration that passes validation:
\* create the registry entry, start the run thread, return the simulation id.
StartAccepted(cfg) ==
    /\ startResult = "none"
    /\ ValidateConfig(cfg)
    /\ request' = cfg
    /\ startResult' = "simulation_id"
    /\ status' = "initializing"
    /\ pc' = "init"
    /\ UNCHANGED <<time, step_count, friendlies, enemies, assets, history,
                   combat_events, error, reply,
                   fetched, stopped_at, twin,
                   app, builder, page, steering>>

\* (variant) the rejected request still creates the registry entry and its thread.
StartRejectedLate(cfg) ==
    /\ startResult = "none"
    /\ ~ValidateConfig(cfg)
    /\ request' = cfg
    /\ startResult' = "simulation_id"
    /\ status' = "initializing"
    /\ pc' = "init"
    /\ UNCHANGED <<time, step_count, friendlies, enemies, assets, history,
                   combat_events, error, reply,
                   fetched, stopped_at, twin,
                   app, builder, page, steering>>

\* start() with a configuration that fails validation: 400, no simulation.
StartRejected(cfg) ==
    /\ startResult = "none"
    /\ ~ValidateConfig(cfg)
    /\ request' = cfg
    /\ startResult' = "validation_error"
    /\ UNCHANGED <<status, pc, time, step_count, friendlies, enemies, assets,
                   history, combat_events, error, reply,
                   fetched, stopped_at, twin,
                   app, builder, page, steering>>

Start == \E cfg \in ConfigSpace : StartAccepted(cfg) \/ StartRejected(cfg)

---------------------------------------------------------------------------
\* The background run thread (run_simulation_async).

\* sim = SuperSimulation(config); sim.initialize_scenario(); then the first
\* evaluation of the loop condition "while not sim.is_complete()".
RunBegin ==
    /\ pc = "init"
    /\ status = "initializing"
    /\ LET F == SpawnFriendlies(request)
           E == SpawnEnemies(request)
           A == SpawnAssets(request)
       IN  /\ friendlies' = F
           /\ enemies' = E
           /\ assets' = A
           /\ pc' = IF is_complete(F, E, 0, request) THEN "save" ELSE "step"
    /\ status' = "running"
    /\ time' = 0
    /\ UNCHANGED <<request, startResult, step_count, history, combat_events,
                   error, reply,
                   fetched, stopped_at, twin,
                   app, builder, page, steering>>

\* The phases of SuperSimulation.step that decide; dead drones are left out.
\* 1. update roles (rolls: the role draw of each drone with a ground threat in view)
update_roles(F, E, cfg, rolls) ==
    Roster([d \in DOMAIN F |->
              IF F[d].health > 0
              THEN [F[d] EXCEPT !.role = update_role(d, F, E, cfg, rolls[d])]
              ELSE F[d]])

\* 2. select targets
select_targets(F, E, A, cfg) ==
    Roster([d \in DOMAIN F |->
              IF F[d].health > 0
              THEN [F[d] EXCEPT !.target = select_target(d, F, E, A, cfg)]
              ELSE F[d]])

\* 3. compute velocities
compute_velocities(F, E) ==
    Roster([d \in DOMAIN F |->
              IF F[d].health > 0
              THEN [F[d] EXCEPT !.velocity = compute_desired_velocity(d, F, E)]
              ELSE [F[d] EXCEPT !.velocity = 0]])

enemy_velocities(F, E, A) ==
    Roster([e \in DOMAIN E |->
              IF E[e].health > 0
              THEN [E[e] EXCEPT !.velocity = enemy_velocity(e, F, E, A)]
              ELSE [E[e] EXCEPT !.velocity = 0]])

\* 4. update positions: position += velocity * dt
update_positions(R) ==
    Roster([i \in DOMAIN R |-> [R[i] EXCEPT !.pos = @ + R[i].velocity * DT]])

\* (variant) combat is resolved before the positions are integrated.
TickCombatFirst ==
    /\ pc = "step"
    /\ status = "running"
    /\ time' = time + DT
    /\ step_count' = step_count + 1
    /\ \E rolls \in [GroundWatchers(friendlies, enemies, request) -> BOOLEAN] :
       \E F1 \in {update_roles(friendlies, enemies, request, rolls)} :
       \E F2 \in {select_targets(F1, enemies, assets, request)} :
       \E fd \in [EngagingFriendlies(F2, enemies, request) -> FriendlyDraws] :
       \E E3 \in {EnemiesAfterFire(F2, enemies, request, fd)} :
       \E ed \in [EngagingEnemies(F2, E3, request) -> EnemyDraws] :
       \E F3 \in {FriendliesAfterFire(F2, E3, request, ed)} :
          /\ enemies' = update_positions(enemy_velocities(F3, E3, assets))
          /\ friendlies' = update_positions(compute_velocities(F3, E3))
          /\ assets' = AssetsAfterBreach(E3, assets)
          /\ combat_events' =
                combat_events + Cardinality(DOMAIN fd) + Cardinality(DOMAIN ed)
    /\ history' = save_state(history, Frame(friendlies', enemies', assets', time'))
    /\ pc' = IF is_complete(friendlies', enemies', time', request) THEN "save" ELSE "step"
    /\ UNCHANGED <<status, request, startResult, error, reply,
                   fetched, stopped_at, twin,
                   app, builder, page, steering>>

\* One pass of the loop body: sim.step(record=True) and the next evaluation
\* of the loop condition.  fd and ed are the damage draws of the friendlies
\* and the enemies that fire (0 is a miss).
Tick ==
    /\ pc = "step"
    /\ status = "running"
    /\ time' = time + DT
    /\ step_count' = step_count + 1
    /\ \E rolls \in [GroundWatchers(friendlies, enemies, request) -> BOOLEAN] :
       \E F1 \in {update_roles(friendlies, enemies, request, rolls)} :
       \E F2 \in {select_targets(F1, enemies, assets, request)} :
       \E F3 \in {compute_velocities(F2, enemies)} :
       \E E3 \in {enemy_velocities(F2, enemies, assets)} :
       \E F4 \in {update_positions(F3)} :
       \E E4 \in {update_positions(E3)} :
       \* 5. process combat: the friendlies fire, then the enemies
       \E fd \in [EngagingFriendlies(F4, E4, request) -> FriendlyDraws] :
          /\ enemies' = EnemiesAfterFire(F4, E4, request, fd)
          /\ assets' = AssetsAfterBreach(enemies', assets)
          /\ \E ed \in [EngagingEnemies(F4, enemies', request) -> EnemyDraws] :
                /\ friendlies' = FriendliesAfterFire(F4, enemies', request, ed)
                /\ combat_events' =
                      combat_events + Cardinality(DOMAIN fd) + Cardinality(DOMAIN ed)
    \* 6. record history
    /\ history' = save_state(history, Frame(friendlies', enemies', assets', time'))
    /\ pc' = IF is_complete(friendlies', enemies', time', request) THEN "save" ELSE "step"
    /\ UNCHANGED <<status, request, startResult, error, reply,
                   fetched, stopped_at, twin,
                   app, builder, page, steering>>

\* (variant) after save_results the thread starts the run over.
FinishAndRestart ==
    /\ pc = "save"
    /\ status = "running"
    /\ status' = "initializing"
    /\ pc' = "init"
    /\ UNCHANGED <<request, startResult, time, step_count, friendlies, enemies,
                   assets, history, combat_events, error, reply,
                   fetched, stopped_at, twin,
                   app, builder, page, steering>>

\* The loop has ended: save_results(sim_id, sim.history, sim.statistics).
Finish ==
    /\ pc = "save"
    /\ status = "running"
    /\ status' = "completed"
    /\ pc' = "done"
    /\ UNCHANGED <<request, startResult, time, step_count, friendlies, enemies,
                   assets, history, combat_events, error, reply,
                   fetched, stopped_at, twin,
                   app, builder, page, steering>>

\* (variant) the failed run drops the frames it had recorded.
FaultDropsFrames ==
    /\ pc = "step"
    /\ status = "running"
    /\ status' = "failed"
    /\ error' = "tick_fault"
    /\ history' = << >>
    /\ pc' = "done"
    /\ UNCHANGED <<request, startResult, time, step_count, friendlies, enemies,
                   assets, combat_events, reply,
                   fetched, stopped_at, twin,
                   app, builder, page, steering>>

\* A step() call raises: the run ends as failed with the diagnostic message,
\* the frames recorded so far stay, and the thread exits.
Fault ==
    /\ pc = "step"
    /\ status = "running"
    /\ status' = "failed"
    /\ error' = "tick_fault"
    /\ pc' = "done"
    /\ UNCHANGED <<request, startResult, time, step_count, friendlies, enemies,
                   assets, history, combat_events, reply,
                   fetched, stopped_at, twin,
                   app, builder, page, steering>>

---------------------------------------------------------------------------
\* GET /api/simulation/{id}/status: statistics is null until the run has
\* completed; a failed run reports its diagnostic.
\* (variant) the statistics are computed whatever the status.
StatusResponseEager ==
    [status |-> status,
     statistics |-> get_statistics(friendlies, enemies, assets, time)]

StatusResponse ==
    [status |-> status,
     statistics |->
        IF status = "completed" THEN get_statistics(friendlies, enemies, assets, time)
        ELSE IF status = "failed" THEN [NoStatistics EXCEPT !.error = error]
        ELSE NoStatistics]

GetStatus ==
    /\ status # "none"
    /\ reply' = StatusResponse
    /\ UNCHANGED <<status, request, startResult, pc, time, step_count, friendlies,
                   enemies, assets, history, combat_events, error,
                   fetched, stopped_at, twin,
                   app, builder, page, steering>>

---------------------------------------------------------------------------
\* POST /api/simulation/{sim_id}/spawn-enemy: a new enemy, air or ground, is
\* added to the active simulation, between two passes of its loop.  It comes
\* with full health at the distance where enemies spawn and gets the next id.
SpawnKinds == {"air", "ground"}

NextEnemyId(E) == Cardinality(DOMAIN E) + 1

SpawnEnemy ==
    /\ status = "running"
    /\ pc = "step"
    /\ Cardinality(DOMAIN enemies) < request.enemy_count + MaxSpawned
    /\ \E kind \in SpawnKinds :
          enemies' = Roster([e \in DOMAIN enemies \cup {NextEnemyId(enemies)} |->
                        IF e \in DOMAIN enemies THEN enemies[e]
                        ELSE [pos |-> SpawnDistance, velocity |-> 0,
                              health |-> ENEMY_HEALTH, kind |-> kind]])
    /\ UNCHANGED <<status, request, startResult, pc, time, step_count, friendlies,
                   assets, history, combat_events, error, reply,
                   fetched, stopped_at, twin,
                   app, builder, page, steering>>

---------------------------------------------------------------------------
Next ==
    \/ Start
    \/ RunBegin
    \/ Tick
    \/ Finish
    \/ Fault
    \/ GetStatus

Spec == Init /\ [][Next]_vars

\* The run of a simulation whose ticks do not fault.  The run thread is a
\* thread of its own: whenever it has a step to take it eventually takes it.
\* StepTaken is a pass of the loop body, told by the tick counter it advances
\* (Tick is the only action that does).
StepTaken ==
    /\ pc = "step"
    /\ status = "running"
    /\ step_count' = step_count + 1

FaultFreeNext ==
    \/ Start
    \/ RunBegin
    \/ Tick
    \/ Finish
    \/ GetStatus

FaultFreeSpec ==
    /\ Init
    /\ [][FaultFreeNext]_vars
    /\ WF_vars(RunBegin)
    /\ WF_step_count(StepTaken)
    /\ WF_vars(Finish)

---------------------------------------------------------------------------
\* The main client (pollSimulation).  Once a status poll has answered
\* "completed" it requests the frames, GET /api/simulation/{id}/data without
\* a range, which the server answers from the history.
\* (variant) the frames are requested as soon as a poll has answered, as the
\* dynamic page does to keep its frames updated while the run goes on.
FetchDataEager ==
    /\ reply.status \in {"running", "completed"}
    /\ fetched.stage = "none"
    /\ fetched' = [fetched EXCEPT !.stage = "data",
                                  !.frames = get_frames(history, 0, Len(history))]
    /\ app' = [app EXCEPT !.currentFrame = 0, !.loading = FALSE]
    /\ UNCHANGED <<status, request, startResult, pc, time, step_count, friendlies,
                   enemies, assets, history, combat_events, error, reply,
                   stopped_at, twin,
                   builder, page, steering>>

\* (variant) the frame index is left where it was.
FetchDataKeepsFrame ==
    /\ reply.status = "completed"
    /\ fetched.stage = "none"
    /\ fetched' = [fetched EXCEPT !.stage = "data",
                                  !.frames = get_frames(history, 0, Len(history))]
    /\ app' = [app EXCEPT !.loading = FALSE]
    /\ UNCHANGED <<status, request, startResult, pc, time, step_count, friendlies,
                   enemies, assets, history, combat_events, error, reply,
                   stopped_at, twin,
                   builder, page, steering>>

\* On "completed" the client fetches the frames, shows the first one and
\* takes the loading overlay down.
FetchData ==
    /\ reply.status = "completed"
    /\ fetched.stage = "none"
    /\ fetched' = [fetched EXCEPT !.stage = "data",
                                  !.frames = get_frames(history, 0, Len(history))]
    /\ app' = [app EXCEPT !.currentFrame = 0, !.loading = FALSE]
    /\ UNCHANGED <<status, request, startResult, pc, time, step_count, friendlies,
                   enemies, assets, history, combat_events, error, reply,
                   stopped_at, twin,
                   builder, page, steering>>

\* With the frames in hand it requests GET /api/simulation/{id}/analytics.
FetchAnalytics ==
    /\ fetched.stage = "data"
    /\ fetched' = [fetched EXCEPT !.stage = "analytics",
                                  !.analytics = get_analytics(history)]
    /\ UNCHANGED <<status, request, startResult, pc, time, step_count, friendlies,
                   enemies, assets, history, combat_events, error, reply,
                   stopped_at, twin,
                   app, builder, page, steering>>

---------------------------------------------------------------------------
\* The service around one simulation: its run thread, the status polls and
\* the enemies spawned into it and the main client, for the scenarios that
\* have enemies to fight.
ServiceConfigs ==
    [friendly_count : 1..MaxFriendly,
     enemy_count : {MaxEnemy},
     ground_attack_ratio : {0, 100},
     max_time : {ScenarioMaxTime},
     weapon_range : {RangeCells},
     detection_range : {DetectCells},
     swarm_algorithm : KnownAlgorithms,
     assets : {MaxAssets}]

StartService == \E cfg \in ServiceConfigs : StartAccepted(cfg)

ServiceNext ==
    \/ StartService
    \/ RunBegin
    \/ Tick
    \/ Finish
    \/ Fault
    \/ GetStatus
    \/ SpawnEnemy
    \/ FetchData
    \/ FetchAnalytics

ServiceSpec == Init /\ [][ServiceNext]_vars

---------------------------------------------------------------------------
\* The state of the backend and of what the clients hold of a run.
server == <<status, request, startResult, pc, time, step_count, friendlies, enemies,
            assets, history, combat_events, error, reply, fetched, stopped_at, twin>>

\* POST /api/simulation/start sent by a client that has had a simulation
\* before: a registry entry of its own for the new simulation, with its own
\* thread; the client's view moves to the new entry.
NewSimulation(cfg) ==
    /\ ValidateConfig(cfg)
    /\ request' = cfg
    /\ startResult' = "simulation_id"
    /\ status' = "initializing"
    /\ pc' = "init"
    /\ time' = 0
    /\ step_count' = 0
    /\ friendlies' = << >>
    /\ enemies' = << >>
    /\ assets' = << >>
    /\ history' = << >>
    /\ combat_events' = 0
    /\ error' = "none"
    /\ reply' = [status |-> "none", statistics |-> NoStatistics]

---------------------------------------------------------------------------
\* The dynamic page.  Its Stop button (stopSimulation) sets the page's own
\* state, playing = false and status = 'stopped', and sends no request: the
\* simulation and its thread are not told.  stopped_at keeps the number of
\* ticks the run had taken when Stop was pressed.
StopSimulation ==
    /\ status = "running"
    /\ stopped_at = -1
    /\ stopped_at' = step_count
    /\ page' = [page EXCEPT !.playing = FALSE, !.status = "stopped"]
    /\ UNCHANGED <<status, request, startResult, pc, time, step_count, friendlies,
                   enemies, assets, history, combat_events, error, reply,
                   fetched, twin,
                   app, builder, steering>>

\* Start of the dynamic page: the frames are dropped, the simulation is
\* started, and with its id the page sets up the poll interval and plays.
startDynamicSimulation ==
    /\ \E cfg \in ServiceConfigs : NewSimulation(cfg)
    /\ page' = [status |-> "running", playing |-> TRUE, poll |-> TRUE, frames |-> 0]
    /\ stopped_at' = -1
    /\ UNCHANGED <<fetched, twin, app, builder, steering>>

\* fetchFrames asks for the frames from 0 to 2000.
FETCH_END == 2000

\* A tick of the poll interval: the page takes over the status the server
\* reports and fetches the frames; on "completed" it clears the interval and
\* stops playing.
pollStatus ==
    /\ page.poll
    /\ status # "none"
    /\ reply' = StatusResponse
    /\ page' = [page EXCEPT !.status = status,
                            !.poll = (status # "completed"),
                            !.playing = IF status = "completed" THEN FALSE ELSE @,
                            !.frames = Len(get_frames(history, 0, FETCH_END))]
    /\ UNCHANGED <<status, request, startResult, pc, time, step_count, friendlies,
                   enemies, assets, history, combat_events, error, fetched,
                   stopped_at, twin, app, builder, steering>>

DynamicNext ==
    \/ startDynamicSimulation
    \/ RunBegin
    \/ Tick
    \/ Finish
    \/ pollStatus
    \/ StopSimulation

DynamicSpec == Init /\ [][DynamicNext]_vars

---------------------------------------------------------------------------
\* Two simulations side by side.  Every start() creates a SuperSimulation of
\* its own, run by a thread of its own (run_simulation_async); the second one
\* is kept in twin.

\* The scenarios run side by side: valid, with air enemies.
TwinConfigs ==
    [friendly_count : 1..MaxFriendly,
     enemy_count : {MaxEnemy},
     ground_attack_ratio : {0},
     max_time : {ScenarioMaxTime},
     weapon_range : {RangeCells},
     detection_range : {DetectCells},
     swarm_algorithm : {"adaptive-shield"},
     assets : {MaxAssets}]

\* start() of the first simulation, with one of these scenarios.
StartScenario == \E cfg \in TwinConfigs : StartAccepted(cfg)

\* What one step() can make of rosters F, E, A: every outcome of the role
\* and damage draws, by the phases of SuperSimulation.step in their order.
StepOutcomes(F, E, A, cfg) ==
    UNION {
        LET F2 == select_targets(update_roles(F, E, cfg, rolls), E, A, cfg)
            F4 == update_positions(compute_velocities(F2, E))
            E4 == update_positions(enemy_velocities(F2, E, A))
        IN  UNION {
                LET E5 == EnemiesAfterFire(F4, E4, cfg, fd)
                IN  {[friendlies |-> FriendliesAfterFire(F4, E5, cfg, ed),
                      enemies |-> E5,
                      assets |-> AssetsAfterBreach(E5, A)] :
                        ed \in [EngagingEnemies(F4, E5, cfg) -> EnemyDraws]} :
                fd \in [EngagingFriendlies(F4, E4, cfg) -> FriendlyDraws]} :
        rolls \in [GroundWatchers(F, E, cfg) -> BOOLEAN]}

\* POST /api/simulation/start for the second simulation.
TwinStart ==
    /\ twin.status = "none"
    /\ \E cfg \in TwinConfigs :
          twin' = [NoRun EXCEPT !.status = "initializing", !.pc = "init", !.request = cfg]
    /\ UNCHANGED <<status, request, startResult, pc, time, step_count, friendlies,
                   enemies, assets, history, combat_events, error, reply,
                   fetched, stopped_at,
                   app, builder, page, steering>>

\* Its thread: construction, initialize_scenario, first test of the loop.
TwinRunBegin ==
    /\ twin.pc = "init"
    /\ LET F == SpawnFriendlies(twin.request)
           E == SpawnEnemies(twin.request)
       IN  twin' = [twin EXCEPT !.status = "running",
                                !.friendlies = F,
                                !.enemies = E,
                                !.assets = SpawnAssets(twin.request),
                                !.pc = IF is_complete(F, E, 0, twin.request)
                                       THEN "save" ELSE "step"]
    /\ UNCHANGED <<status, request, startResult, pc, time, step_count, friendlies,
                   enemies, assets, history, combat_events, error, reply,
                   fetched, stopped_at,
                   app, builder, page, steering>>

\* (variant) the pass of the loop body writes its friendlies to the roster
\* of the first simulation as well: one roster shared by the simulations.
TwinTickShared ==
    /\ twin.pc = "step"
    /\ \E o \in StepOutcomes(twin.friendlies, twin.enemies, twin.assets, twin.request) :
          /\ twin' = [twin EXCEPT
                      !.friendlies = o.friendlies,
                      !.enemies = o.enemies,
                      !.assets = o.assets,
                      !.time = @ + DT,
                      !.history = save_state(@, Frame(o.friendlies, o.enemies, o.assets,
                                                      twin.time + DT)),
                      !.pc = IF is_complete(o.friendlies, o.enemies, twin.time + DT,
                                            twin.request)
                             THEN "save" ELSE "step"]
          /\ friendlies' = o.friendlies
    /\ UNCHANGED <<status, request, startResult, pc, time, step_count,
                   enemies, assets, history, combat_events, error, reply,
                   fetched, stopped_at,
                   app, builder, page, steering>>

\* Its thread: one pass of the loop body on its own SuperSimulation.
TwinTick ==
    /\ twin.pc = "step"
    /\ \E o \in StepOutcomes(twin.friendlies, twin.enemies, twin.assets, twin.request) :
          twin' = [twin EXCEPT
                      !.friendlies = o.friendlies,
                      !.enemies = o.enemies,
                      !.assets = o.assets,
                      !.time = @ + DT,
                      !.history = save_state(@, Frame(o.friendlies, o.enemies, o.assets,
                                                      twin.time + DT)),
                      !.pc = IF is_complete(o.friendlies, o.enemies, twin.time + DT,
                                            twin.request)
                             THEN "save" ELSE "step"]
    /\ UNCHANGED <<status, request, startResult, pc, time, step_count, friendlies,
                   enemies, assets, history, combat_events, error, reply,
                   fetched, stopped_at,
                   app, builder, page, steering>>

\* Its thread: save_results.
TwinFinish ==
    /\ twin.pc = "save"
    /\ twin' = [twin EXCEPT !.status = "completed", !.pc = "done"]
    /\ UNCHANGED <<status, request, startResult, pc, time, step_count, friendlies,
                   enemies, assets, history, combat_events, error, reply,
                   fetched, stopped_at,
                   app, builder, page, steering>>

TwinNext ==
    \/ StartScenario
    \/ RunBegin
    \/ Tick
    \/ Finish
    \/ TwinStart
    \/ TwinRunBegin
    \/ TwinTick
    \/ TwinFinish

TwinSpec == Init /\ [][TwinNext]_vars

---------------------------------------------------------------------------
\* The main client (App.jsx).  Its frames are fetched.frames.

\* The presets the landing page starts.
PresetConfigs == TwinConfigs

\* startSimulation(preset): the loading overlay goes up, the simulation is
\* started and pollSimulation begins.  The frames of the simulation before
\* stay on display.
startSimulation ==
    /\ ~app.loading
    /\ \E cfg \in PresetConfigs : NewSimulation(cfg)
    /\ app' = [app EXCEPT !.loading = TRUE, !.polling = TRUE]
    /\ fetched' = [fetched EXCEPT !.stage = "none"]
    /\ UNCHANGED <<stopped_at, twin, builder, page, steering>>

\* checkStatus of pollSimulation: one status request and what the client
\* does with the answer.  On "completed" it goes on to fetch the frames
\* (FetchData); on "running" and "initializing" it polls again in a second;
\* on "error" it gives up; on any other status it polls again.
checkStatus ==
    /\ app.polling
    /\ status # "none"
    /\ reply' = StatusResponse
    /\ app' = IF status = "completed" THEN [app EXCEPT !.polling = FALSE]
              ELSE IF status \in {"running", "initializing"} THEN app
              ELSE IF status = "error"
              THEN [app EXCEPT !.loading = FALSE, !.polling = FALSE]
              ELSE app
    /\ UNCHANGED <<status, request, startResult, pc, time, step_count, friendlies,
                   enemies, assets, history, combat_events, error, fetched,
                   stopped_at, twin, builder, page, steering>>

\* Playback controls.  Every button is disabled while there are no frames.
SKIP_FRAMES == 50

LastFrame == Len(fetched.frames) - 1

\* Play / Pause
TogglePlay ==
    /\ Len(fetched.frames) # 0
    /\ app' = [app EXCEPT !.playing = ~@]
    /\ UNCHANGED <<server, builder, page, steering>>

\* Restart
RestartPlayback ==
    /\ Len(fetched.frames) # 0
    /\ app' = [app EXCEPT !.currentFrame = 0, !.playing = FALSE]
    /\ UNCHANGED <<server, builder, page, steering>>

\* Skip back 50 frames
SkipBack ==
    /\ Len(fetched.frames) # 0
    /\ app.currentFrame # 0
    /\ app' = [app EXCEPT !.currentFrame = MaxOf(0, @ - SKIP_FRAMES), !.playing = FALSE]
    /\ UNCHANGED <<server, builder, page, steering>>

\* Skip forward 50 frames
SkipForward ==
    /\ Len(fetched.frames) # 0
    /\ app.currentFrame < LastFrame
    /\ app' = [app EXCEPT !.currentFrame =
                              IF @ + SKIP_FRAMES < LastFrame THEN @ + SKIP_FRAMES
                              ELSE LastFrame,
                          !.playing = FALSE]
    /\ UNCHANGED <<server, builder, page, steering>>

\* Jump to End
JumpToEnd ==
    /\ Len(fetched.frames) # 0
    /\ app' = [app EXCEPT !.currentFrame = LastFrame, !.playing = FALSE]
    /\ UNCHANGED <<server, builder, page, steering>>

\* The range input, from 0 to max(frames.length - 1, 0).
Scrub ==
    /\ Len(fetched.frames) # 0
    /\ \E value \in 0..MaxOf(LastFrame, 0) :
          app' = [app EXCEPT !.currentFrame = value]
    /\ UNCHANGED <<server, builder, page, steering>>

\* (variant) at the end the playback starts over from frame 0.
PlaybackTickLoops ==
    /\ app.playing
    /\ Len(fetched.frames) > 0
    /\ app' = IF app.currentFrame + 1 >= Len(fetched.frames)
              THEN [app EXCEPT !.currentFrame = 0]
              ELSE [app EXCEPT !.currentFrame = @ + 1]
    /\ UNCHANGED <<server, builder, page, steering>>

\* A tick of the playback interval, which runs while playing is set and
\* there are frames.
PlaybackTick ==
    /\ app.playing
    /\ Len(fetched.frames) > 0
    /\ app' = IF app.currentFrame + 1 >= Len(fetched.frames)
              THEN [app EXCEPT !.currentFrame = LastFrame, !.playing = FALSE]
              ELSE [app EXCEPT !.currentFrame = @ + 1]
    /\ UNCHANGED <<server, builder, page, steering>>

ClientNext ==
    \/ startSimulation
    \/ RunBegin
    \/ Tick
    \/ Finish
    \/ Fault
    \/ checkStatus
    \/ FetchData
    \/ FetchAnalytics
    \/ TogglePlay
    \/ RestartPlayback
    \/ SkipBack
    \/ SkipForward
    \/ JumpToEnd
    \/ Scrub
    \/ PlaybackTick

ClientSpec == Init /\ [][ClientNext]_vars

\* Playback left to itself: simulations are run and loaded, Play / Pause is
\* the one control used, and the interval ticks as long as it is set up.
PlaybackNext ==
    \/ startSimulation
    \/ RunBegin
    \/ Tick
    \/ Finish
    \/ checkStatus
    \/ FetchData
    \/ TogglePlay
    \/ PlaybackTick

PlaybackSpec == Init /\ [][PlaybackNext]_vars /\ WF_vars(PlaybackTick)

---------------------------------------------------------------------------
\* The custom scenario builder of the main client.
MaxBuilderAssets == 3   \* largest number of assets the builder is taken to

\* Where addAsset puts asset number index: on a ring of radius
\* 400 + 150 * index at the angle index * pi / 3, rounded.
RingPosition(index) ==
    CASE index = 0 -> <<Num(4000), Num(0), Num(0)>>
      [] index = 1 -> <<Num(2750), Num(0), Num(4760)>>
      [] index = 2 -> <<Num(-3500), Num(0), Num(6060)>>
      [] index = 3 -> <<Num(-8500), Num(0), Num(0)>>
      [] index = 4 -> <<Num(-5000), Num(0), Num(-8660)>>
      [] OTHER -> <<Num(5750), Num(0), Num(-9960)>>

addAsset ==
    /\ Len(customConfig.assets.list) < MaxBuilderAssets
    /\ LET index == Len(customConfig.assets.list)
       IN  /\ customConfig' =
                 [customConfig EXCEPT !.assets.list =
                     Append(@, Asset(Arr(RingPosition(index)), Num(10)))]
           /\ selectedAssetIndex' = index
    /\ UNCHANGED <<server, app, config, page, steering>>

\* prev.assets.filter((_, i) => i !== index); index counts from 0.
WithoutAsset(list, index) ==
    [i \in 1..(Len(list) - 1) |-> IF i <= index THEN list[i] ELSE list[i + 1]]

\* (variant) the selection is left where it was.
removeAssetKeepsSelection ==
    /\ \E index \in 0..(Len(customConfig.assets.list) - 1) :
          customConfig' = [customConfig EXCEPT !.assets.list = WithoutAsset(@, index)]
    /\ UNCHANGED <<server, app, selectedAssetIndex, config, page, steering>>

\* The Remove button of asset number index.
removeAsset ==
    /\ \E index \in 0..(Len(customConfig.assets.list) - 1) :
          /\ customConfig' = [customConfig EXCEPT !.assets.list = WithoutAsset(@, index)]
          /\ selectedAssetIndex' =
                IF selectedAssetIndex = index THEN MaxOf(0, selectedAssetIndex - 1)
                ELSE IF selectedAssetIndex > index THEN selectedAssetIndex - 1
                ELSE selectedAssetIndex
    /\ UNCHANGED <<server, app, config, page, steering>>

\* "Place on Map", a marker or a chip of the placement map: one per asset.
setSelectedAssetIndex ==
    /\ \E index \in 0..(Len(customConfig.assets.list) - 1) :
          selectedAssetIndex' = index
    /\ UNCHANGED <<server, app, customConfig, config, page, steering>>

\* The scenario file is read, prepared and taken over as customConfig.
loadCustomScenario ==
    /\ customConfig' = prepareScenarioPayload(config)
    /\ selectedAssetIndex' = 0
    /\ UNCHANGED <<server, app, config, page, steering>>

\* The scenario files loaded into the builder: without assets, with an empty
\* list, with one asset and with two.
ScenarioFiles ==
    {[EmptyScenario EXCEPT !.assets = a] :
        a \in {NoAssets, AssetList(<< >>),
               AssetList(<<Asset(PosStr("10,20,30"), Str("42"))>>),
               AssetList(<<Asset(PosStr("10,20,30"), Str("42")),
                           Asset(NoPosition, Undefined)>>)}}

\* The builder with a scenario file at hand.
BuilderInit ==
    /\ ServerInit
    /\ Mounted
    /\ config \in ScenarioFiles
    /\ steering = Hovering

BuilderNext ==
    \/ addAsset
    \/ removeAsset
    \/ setSelectedAssetIndex
    \/ loadCustomScenario

BuilderSpec == BuilderInit /\ [][BuilderNext]_vars

\* prepareScenarioPayload on the scenarios a file or the form can hold.
RawValues ==
    {Num(250), Num(0), Num(-30), NaN, Infinity, Undefined, Null, True}
        \cup {Str(s) : s \in FormStrings}

RawPositions ==
    {NoPosition, PosOther,
     Arr(<<Num(10), Num(20), Num(30)>>), Arr(<<Num(10), Num(20)>>),
     Arr(<<Num(10), Num(20), Num(30), Num(40)>>), Arr(<<Str("42"), NaN, Undefined>>),
     PosStr("10,20,30"), PosStr("10 20"), PosStr("a,b"), PosStr(""),
     Obj(Num(10), Num(20), Num(30)), Obj(Num(10), Undefined, Str("abc"))}

RawAssets ==
    {Asset(p, v) : p \in RawPositions, v \in {Undefined, Num(25), Str("0.5"), Str(""), NaN}}

RawAssetLists ==
    {NoAssets, AssetsOther, AssetList(<< >>)}
        \cup {AssetList(<<a>>) : a \in RawAssets}
        \cup {AssetList(<<a, Asset(NoPosition, v)>>) :
                 a \in RawAssets, v \in {Undefined, Infinity}}

InputConfigs ==
    {[EmptyScenario EXCEPT ![f] = v, ![g] = w] :
        f \in NumericFields, g \in NumericFields, v \in RawValues, w \in RawValues}
        \cup {[EmptyScenario EXCEPT !.assets = a] : a \in RawAssetLists}

\* The builder with any scenario at hand.
PayloadInit ==
    /\ ServerInit
    /\ Mounted
    /\ config \in InputConfigs
    /\ steering = Hovering

PayloadSpec == PayloadInit /\ [][loadCustomScenario]_vars

---------------------------------------------------------------------------
\* Velocity smoothing of one friendly drone: tick by tick its strategy
\* returns a raw vector, of a magnitude within or beyond the top speed.
RawSpeeds == {-MaxRawSpeed, -MAX_SPEED, 0, MAX_SPEED, MaxRawSpeed}

\* A drone of any strategy before its first tick.
SteeringInit ==
    /\ ServerInit
    /\ Mounted
    /\ config = DefaultCustomConfig
    /\ steering \in {[Hovering EXCEPT !.algorithm = a] : a \in NavigationStrategies}

Steer ==
    /\ \E raw \in RawSpeeds :
          steering' = [steering EXCEPT
                          !.raw = raw,
                          !.velocity = smooth_velocity(clamp_speed(raw, MAX_SPEED), @)]
    /\ UNCHANGED <<server, app, builder, page>>

SteeringSpec == SteeringInit /\ [][Steer]_vars

---------------------------------------------------------------------------
\* Properties.

Owners(e) == {d \in AliveFriendlies(friendlies) : friendlies[d].target = e}

\* C2: under the hash assignment, after every tick every enemy that is alive
\* and has at least one observer has exactly one friendly assigned to it:
\* never none, never two.
ExactlyOneOwner ==
    (request.swarm_algorithm = "cbba-superiority" /\ status = "running" /\ step_count > 0)
        => \A e \in AliveEnemies(enemies) :
              Observers(e, friendlies, enemies, request) # {}
                  => Cardinality(Owners(e)) = 1

\* C4: the health of every agent and asset never rises from one step to the
\* next and stays within 0 .. its maximum.
HealthMonotone ==
    [][ /\ \A d \in DOMAIN friendlies' :
              /\ friendlies'[d].health \in 0..FRIENDLY_HEALTH
              /\ d \in DOMAIN friendlies => friendlies'[d].health <= friendlies[d].health
        /\ \A e \in DOMAIN enemies' :
              /\ enemies'[e].health \in 0..ENEMY_HEALTH
              /\ e \in DOMAIN enemies => enemies'[e].health <= enemies[e].health
        /\ \A a \in DOMAIN assets' :
              /\ assets'[a].health \in 0..ASSET_HEALTH
              /\ a \in DOMAIN assets => assets'[a].health <= assets[a].health
      ]_vars

\* An enemy brought to 0, a friendly and an asset that took damage.
DamageTaken ==
    /\ \E e \in DOMAIN enemies : enemies[e].health = 0
    /\ \E d \in DOMAIN friendlies : friendlies[d].health \in 1..(FRIENDLY_HEALTH - 1)
    /\ \E a \in DOMAIN assets : assets[a].health \in 1..(ASSET_HEALTH - 1)

\* The loop condition has been evaluated and the run has not failed.
Checked == status \in {"running", "completed"} /\ pc \in {"step", "save", "done"}

\* The loop has ended: the run is being saved as completed, or is completed.
Ended == pc \in {"save", "done"}

AllAssetsDestroyed(A) == DOMAIN A # {} /\ AliveAssets(A) = {}

StatusEdges ==
    {<<"none", "initializing">>, <<"initializing", "running">>,
     <<"running", "completed">>, <<"running", "failed">>}

ConfigurationError(cfg) ==
    \/ cfg.friendly_count <= 0
    \/ cfg.enemy_count < 0
    \/ cfg.max_time <= 0
    \/ cfg.weapon_range <= 0
    \/ cfg.detection_range <= 0
    \/ cfg.swarm_algorithm \notin KnownAlgorithms

\* C7 (as claimed): every non-positive count is rejected, enemy_count = 0 too.
ConfigurationErrorClaimed(cfg) ==
    \/ ConfigurationError(cfg)
    \/ cfg.enemy_count <= 0

RunsAreReproducible ==
    (status = "completed" /\ twin.status = "completed" /\ twin.request = request)
        => twin.history = history

\* The run has its rosters: scenario initialization is done.
Initialized == status \in {"running", "completed", "failed"}

OneTargetPerFriendly ==
    [][ /\ \A d \in AliveFriendlies(friendlies') :
              friendlies'[d].target \in {0} \cup DOMAIN enemies'
        /\ step_count' # step_count =>
              LET hit == {e \in DOMAIN enemies : enemies'[e].health < enemies[e].health}
                  armed == {d \in AliveFriendlies(friendlies) : friendlies'[d].target # 0}
              IN  /\ hit \subseteq {friendlies'[d].target : d \in armed}
                  /\ Cardinality(hit) <= Cardinality(armed)
      ]_vars

\* A lone friendly with two enemies alive within its weapon range: it has
\* fired on its target and left the other one untouched.
OneOfTwoEngaged ==
    /\ status = "running"
    /\ DOMAIN friendlies = {1}
    /\ friendlies[1].target # 0
    /\ \E e, o \in AliveEnemies(enemies) :
          /\ e # o
          /\ friendlies[1].target = e
          /\ enemies[e].health < ENEMY_HEALTH
          /\ enemies[o].health = ENEMY_HEALTH
          /\ Distance(friendlies[1].pos, enemies[e].pos) <= request.weapon_range
          /\ Distance(friendlies[1].pos, enemies[o].pos) <= request.weapon_range

\* C15: the frame history is append-only: a step of the system leaves it as
\* it is or adds one frame at its end, and it adds one only in a tick; the
\* status poll, the requests for frames and analytics, a spawned enemy and
\* a failing tick leave every recorded frame as it was.
HistoryAppendOnly ==
    [][ \/ history' = history
        \/ /\ Len(history') = Len(history) + 1
           /\ SubSeq(history', 1, Len(history)) = history
           /\ step_count' = step_count + 1
           /\ status = "running"
      ]_vars

\* Two frames recorded and then read by the client, frames and analytics.
FramesReadBack ==
    /\ Len(history) >= 2
    /\ fetched.stage = "analytics"
    /\ fetched.frames = history
    /\ DOMAIN fetched.analytics.timestamps = {1}

\* C16 (as claimed): once Stop has been pressed on a running simulation at
\* most the tick in progress finishes: the run takes at most one tick more
\* than it had taken at that moment.
StopEndsTheRun == stopped_at >= 0 => step_count <= stopped_at + 1

\* The state of the first simulation.
FirstRun == <<status, request, pc, time, step_count, friendlies, enemies, assets,
              history, combat_events, error>>

Moved(R, Rnew) == [i \in DOMAIN R |-> [Rnew[i] EXCEPT !.health = R[i].health]]

Decide(phase, d, F, E, A, cfg, rolls) ==
    IF F[d].health <= 0
    THEN (IF phase = "velocity" THEN [F EXCEPT ![d].velocity = 0] ELSE F)
    ELSE CASE phase = "role" ->
                 [F EXCEPT ![d].role = update_role(d, F, E, cfg, rolls[d])]
           [] phase = "target" ->
                 [F EXCEPT ![d].target = select_target(d, F, E, A, cfg)]
           [] phase = "velocity" ->
                 [F EXCEPT ![d].velocity = compute_desired_velocity(d, F, E)]

\* A schedule is a sequence of <<phase, drone>>.  Run on the roster F it
\* leaves every drone with the role, the target and the velocity it has in G.
RECURSIVE DecidesAs(_, _, _, _, _, _, _)
DecidesAs(schedule, F, E, A, cfg, rolls, G) ==
    IF schedule = << >>
    THEN \A d \in DOMAIN F :
            /\ G[d].role = F[d].role
            /\ G[d].target = F[d].target
            /\ G[d].velocity = F[d].velocity
    ELSE \E F1 \in {Decide(Head(schedule)[1], Head(schedule)[2], F, E, A, cfg, rolls)} :
            DecidesAs(Tail(schedule), F1, E, A, cfg, rolls, G)

\* The orders in which the drones of S can be taken.
Orders(S) ==
    {o \in [1..Cardinality(S) -> S] : \A i, j \in 1..Cardinality(S) : i # j => o[i] # o[j]}

\* One loop of step(): the drones in the order o, all in the same phase.
Loop(phase, o) == [i \in DOMAIN o |-> <<phase, o[i]>>]

\* Drone by drone: each takes its three decisions before the next drone starts.
RECURSIVE DroneByDrone(_)
DroneByDrone(o) ==
    IF o = << >> THEN << >>
    ELSE <<<<"role", Head(o)>>, <<"target", Head(o)>>, <<"velocity", Head(o)>>>>
            \o DroneByDrone(Tail(o))

\* The schedules of the decide phase: the three loops of step(), each in an
\* order of its own, and the drones taken one after the other in any order.
Schedules(S) ==
    {Loop("role", r) \o Loop("target", t) \o Loop("velocity", v) :
        r \in Orders(S), t \in Orders(S), v \in Orders(S)}
        \cup {DroneByDrone(o) : o \in Orders(S)}

GuardedDistance(d, e) == MaxOf(Distance(friendlies[d].pos, enemies[e].pos), MIN_DISTANCE)

\* guarded score of (d, e) >= guarded score of (d, o), by cross-multiplication.
GuardedAtLeast(d, e, o) ==
    (hash_score(d, e) * GuardedDistance(d, e) + DISTANCE_GAIN) * GuardedDistance(d, o)
       >= (hash_score(d, o) * GuardedDistance(d, o) + DISTANCE_GAIN) * GuardedDistance(d, e)

\* C23: scoring at distance 0 does not divide by zero: in a tick of the
\* greedy assignment in which a living drone scores an observed enemy at
\* distance 0, the distance counts as the floor MIN_DISTANCE, so that the run
\* stays running and the drone's target is an observed enemy whose score
\* with the guarded distance is the highest.
ZeroDistanceGuarded ==
    [][ (step_count' = step_count + 1 /\ request.swarm_algorithm = "cbba-superiority") =>
          \A d \in AliveFriendlies(friendlies) :
             \A e \in Observable(d, friendlies, enemies, request) :
                Distance(friendlies[d].pos, enemies[e].pos) = 0 =>
                   /\ status' = "running"
                   /\ friendlies'[d].target \in Observable(d, friendlies, enemies, request)
                   /\ \A o \in Observable(d, friendlies, enemies, request) :
                         GuardedAtLeast(d, friendlies'[d].target, o)
      ]_vars

CurrentFrameInRange ==
    Len(fetched.frames) > 0 => app.currentFrame \in 0..(Len(fetched.frames) - 1)

\* The frames of a later simulation are on display: the analytics of the
\* simulation shown before are still held, the new run has a single frame
\* and the client shows it.
SecondSimulationLoaded ==
    /\ fetched.stage = "data"
    /\ fetched.analytics # << >>
    /\ Len(fetched.frames) = 1
    /\ app.currentFrame = 0
    /\ ~app.loading

\* C26: while the client is playing and no control is used, each tick of the
\* playback timer moves the current frame on by exactly 1 until the last
\* frame; the tick that would pass the last frame sets playing to false and
\* stays on the last frame; so the playback that is left alone (no new
\* simulation is started) eventually stops.
PlaybackRunsToTheEnd ==
    /\ [][ ( /\ app.playing
             /\ fetched' = fetched
             /\ app'.loading = app.loading
             /\ app'.polling = app.polling
             /\ app' # app )
           => \/ /\ app.currentFrame < LastFrame
                 /\ app'.currentFrame = app.currentFrame + 1
                 /\ app'.playing
              \/ /\ app'.currentFrame = app.currentFrame
                 /\ ~app'.playing
         ]_vars
    /\ (app.playing ~> (~app.playing \/ app.loading))

\* The playback has run through a simulation of two frames by itself: it is
\* on the last frame and has stopped.
PlayedToTheLastFrame ==
    /\ Len(fetched.frames) = 2
    /\ app.currentFrame = LastFrame
    /\ ~app.playing
    /\ ~app.loading

\* C27: after startSimulation the polling ends and the loading overlay is
\* taken down once the server reports a terminal status, completed, failed
\* or error: a client that has seen a failed or error status polls no more
\* and is not loading, and one that has seen completed polls no more and is
\* not loading once it holds the frames.
TerminalEndsPolling ==
    /\ reply.status \in {"completed", "failed", "error"} => ~app.polling
    /\ reply.status \in {"failed", "error"} => ~app.loading
    /\ (reply.status = "completed" /\ fetched.stage # "none") => ~app.loading

\* C28: in the scenario builder, whenever the asset list is not empty the
\* selected asset index is the index of one of its assets,
\* 0 <= selectedAssetIndex <= assets.length - 1: after addAsset, removeAsset,
\* the selection of an asset and the loading of a scenario file.
SelectedAssetInRange ==
    Len(customConfig.assets.list) > 0 =>
        selectedAssetIndex \in 0..(Len(customConfig.assets.list) - 1)

\* Assets were added and one before the selected asset was removed: the
\* first asset of the list is the one addAsset had put second, and the
\* selection has moved down with the asset it was on, the last of the list.
SelectionFollowedRemoval ==
    /\ Len(customConfig.assets.list) = 2
    /\ customConfig.assets.list[1].position = Arr(RingPosition(1))
    /\ customConfig.assets.list[2].position = Arr(RingPosition(2))
    /\ selectedAssetIndex = 1

\* What a numeric field of the payload is to be, given the field of the
\* scenario: the number itself when it is a finite number, the number a
\* string spells when it spells a finite one, the default otherwise.
Expected(value, default) ==
    CASE value.t = "number" -> value
      [] value.t = "string" /\ value.s \in {"42", " 7 ", "0.5", "-3"} -> ToNumber(value.s)
      [] OTHER -> default

\* C29: prepareScenarioPayload returns a scenario with at least one asset,
\* every asset with a position of three finite numbers and a finite value,
\* and with the seven numeric fields finite; a field that is missing, empty
\* or not numeric has its default, a finite number or a string that spells
\* one is kept.
PayloadIsSane ==
    customConfig # DefaultCustomConfig =>
        /\ customConfig.assets.t = "array"
        /\ Len(customConfig.assets.list) >= 1
        /\ config.assets.t = "array" /\ config.assets.list # << >> =>
              Len(customConfig.assets.list) = Len(config.assets.list)
        /\ \A i \in 1..Len(customConfig.assets.list) :
              /\ customConfig.assets.list[i].position.t = "array"
              /\ Len(customConfig.assets.list[i].position.e) = 3
              /\ \A k \in 1..3 : IsFinite(customConfig.assets.list[i].position.e[k])
              /\ IsFinite(customConfig.assets.list[i].value)
        /\ \A f \in NumericFields :
              /\ IsFinite(customConfig[f])
              /\ customConfig[f] = Expected(config[f], defaults[f])

\* A scenario has been prepared that spells one field as a string, holds
\* NaN in another and gives no assets: the first is parsed, the second has
\* its default and the payload has the one default asset.
PreparedWithDefaults ==
    /\ config.friendly_count = Str("42")
    /\ config.max_time = NaN
    /\ config.assets = NoAssets
    /\ customConfig.friendly_count = Num(420)
    /\ customConfig.max_time = defaults.max_time
    /\ customConfig.enemy_count = defaults.enemy_count
    /\ customConfig.assets = AssetList(<<Asset(Arr(Origin), Num(10))>>)

\* C30: on the dynamic page, after Stop the displayed status stays
\* 'stopped' until Start is pressed again: a step leaves a status 'stopped'
\* as it is unless it is the Start of a new simulation, which drops the
\* frames, plays and finds its simulation initializing; a status poll that
\* arrives after Stop does not set the status back to 'running'.
StoppedUntilStart ==
    [][ page.status = "stopped" =>
          \/ page'.status = "stopped"
          \/ /\ page'.status = "running"
             /\ page'.playing
             /\ page'.frames = 0
             /\ status' = "initializing"
             /\ step_count' = 0
      ]_vars

=============================================================================
